---- MODULE Spec2Model ----
(***************************************************************************)
(* Model of the TaskRun result reconciler (package taskrun,                *)
(* Reconciler.Reconcile).  One worker per work-queue key; the dispatcher   *)
(* runs at most one pass per key at a time and any number of passes for    *)
(* different keys concurrently.  Every remote call (TaskRuns.Get,          *)
(* GetResult, UpdateResult, CreateResult, TaskRuns.Patch) is one atomic    *)
(* step together with the local code that follows it up to the next call.  *)
(***************************************************************************)
EXTENDS Integers, Sequences, FiniteSets, TLC

\* ---------------------------------------------------------------- bounds
MaxPasses == 3      \* passes the dispatcher delivers in one behaviour
MaxResults == 2     \* Results the service creates in one behaviour
MaxChanges == 1     \* changes (edits, deletions) the owners of the TaskRuns make
MaxRestarts == 1    \* process restarts after a fatal log call
MaxParts == 6       \* slash-separated parts of a name given to ParseName

\* ------------------------------------------------------------- constants
NoAnn == -1         \* annotation.ResultID absent from the annotations map
NoId == -1          \* no identifier (failed call, unused field of a log entry)

\* Work-queue keys are strings; a string is a sequence of characters.
KeyPA == <<"p", "/", "a">>
KeyQA == <<"q", "/", "a">>
KeyBad == <<"p", "/", "a", "/", "b">>
Keys == {KeyPA, KeyQA, KeyBad}

\* strings.Split(s, "/")
RECURSIVE Split(_)
Split(s) ==
    IF \A i \in 1..Len(s) : s[i] # "/"
    THEN <<s>>
    ELSE LET i == CHOOSE j \in 1..Len(s) :
                      s[j] = "/" /\ \A h \in 1..(j - 1) : s[h] # "/"
         IN <<SubSeq(s, 1, i - 1)>> \o Split(SubSeq(s, i + 1, Len(s)))

\* cache.SplitMetaNamespaceKey: "name" or "namespace/name", else an error
SplitMetaNamespaceKey(key) ==
    LET parts == Split(key) IN
    CASE Len(parts) = 1 -> [namespace |-> <<>>, name |-> parts[1], err |-> FALSE]
      [] Len(parts) = 2 -> [namespace |-> parts[1], name |-> parts[2], err |-> FALSE]
      [] OTHER -> [namespace |-> <<>>, name |-> <<>>, err |-> TRUE]

\* The TaskRuns the cluster can hold, by (namespace, name)
Objs == {<<SplitMetaNamespaceKey(k).namespace, SplitMetaNamespaceKey(k).name>> :
            k \in {h \in Keys : ~SplitMetaNamespaceKey(h).err}}

VARIABLES
    obj,        \* the cluster: obj[o] = [exists, ann, ver] of TaskRun o
    store,      \* the results service: identifier -> Executions of the Result
    alive,      \* the watcher process is running
    pc,         \* pc[k]: the call the pass for key k issues next, or "idle"
    tr,         \* tr[k]: the TaskRun fetched by the current (or last) pass
    result,     \* result[k]: the Result of the UPDATE branch, after the scan
    trResult,   \* trResult[k]: identifier of the Result CreateResult returned
    calls,      \* calls[k]: the steps of the current (or last) pass for k
    outcome,    \* outcome[k]: how the last pass for k ended
    npass,      \* npass[k]: passes delivered for k
    failed,     \* failed[k]: a step of a pass for k failed, or a pass was cut
    creator,    \* creator[id]: the key whose pass created Result id
    obj0,       \* the cluster as it was when the reconciler started
    restarts,   \* process restarts so far
    raw,        \* record package: the name given to ParseName
    parsed,     \* record package: what ParseName returned
    args,       \* record package: the explicit arguments of ToStorage
    wire,       \* record package: the pb.Record given to ToStorage
    stored,     \* record package: the db.Record ToStorage returned
    api,        \* record package: the pb.Record ToAPI returned
    stage       \* record package: the call made last

\* the variables of the record package
codec == <<raw, parsed, args, wire, stored, api, stage>>

vars == <<obj, store, alive, pc, tr, result, trResult, calls, outcome, npass,
          failed, creator, obj0, restarts, codec>>

\* ------------------------------------------------------- record package
\* strings of the record package, as sequences of characters
StrA == <<"a">>
StrB == <<"b">>
StrC == <<"c">>
StrD == <<"d">>
StrSpaceA == <<" ", "a">>
StrResults == <<"r", "e", "s", "u", "l", "t", "s">>
StrRecords == <<"r", "e", "c", "o", "r", "d", "s">>
StrTacocat == <<"t", "a", "c", "o", "c", "a", "t">>
StrFoo == <<"f", "o", "o">>
StrBar == <<"b", "a", "r">>
StrBaz == <<"b", "a", "z">>
Str1 == <<"1">>
StrTaskRun == <<"T", "a", "s", "k", "R", "u", "n">>

\* strings.Join(parts, "/")
RECURSIVE Join(_)
Join(parts) ==
    IF Len(parts) = 0 THEN <<>>
    ELSE IF Len(parts) = 1 THEN parts[1]
    ELSE parts[1] \o <<"/">> \o Join(Tail(parts))

\* the full name: parent + "/results/" + result + "/records/" + record
FullName(parent, res, rec) ==
    parent \o <<"/">> \o StrResults \o <<"/">> \o res \o <<"/">> \o StrRecords \o <<"/">> \o rec

\* what ParseName returns: the three segments, or an error
Parsed(parent, res, rec) == [ok |-> TRUE, parent |-> parent, result |-> res, name |-> rec]
ParseError == [ok |-> FALSE, parent |-> <<>>, result |-> <<>>, name |-> <<>>]

\* strings.TrimSpace, for leading spaces
RECURSIVE TrimLeft(_)
TrimLeft(str) == IF str # <<>> /\ Head(str) = " " THEN TrimLeft(Tail(str)) ELSE str

\* ParseName(raw): five parts, the connectors "results" and "records", no
\* empty segment
ParseName_AllowEmpty(name) ==
    LET parts == Split(name) IN
    IF Len(parts) = 5 /\ parts[2] = StrResults /\ parts[4] = StrRecords
    THEN Parsed(parts[1], parts[3], parts[5])
    ELSE ParseError
ParseName_Trim(name) ==
    LET parts == Split(name) IN
    IF /\ Len(parts) = 5
       /\ parts[2] = StrResults /\ parts[4] = StrRecords
       /\ parts[1] # <<>> /\ parts[3] # <<>> /\ parts[5] # <<>>
    THEN Parsed(TrimLeft(parts[1]), TrimLeft(parts[3]), TrimLeft(parts[5]))
    ELSE ParseError
ParseName(name) ==
    LET parts == Split(name) IN
    IF /\ Len(parts) = 5
       /\ parts[2] = StrResults /\ parts[4] = StrRecords
       /\ parts[1] # <<>> /\ parts[3] # <<>> /\ parts[5] # <<>>
    THEN Parsed(parts[1], parts[3], parts[5])
    ELSE ParseError

\* the typed payload of a pb.Record (an Any: type URL and value), or none
AnyProto(typeUrl, value) == [set |-> TRUE, typeUrl |-> typeUrl, value |-> value]
NoData == [set |-> FALSE, typeUrl |-> <<>>, value |-> <<>>]
\* the bytes of a db.Record: the serialized Any, or none
Bytes(b) == [set |-> TRUE, bytes |-> b]
NoBytes == [set |-> FALSE, bytes |-> <<>>]

\* a length (0..9) as one byte, and back
Digits == <<"0", "1", "2", "3", "4", "5", "6", "7", "8", "9">>
LenByte(n) == Digits[n + 1]
ByteLen(c) == (CHOOSE i \in 1..Len(Digits) : Digits[i] = c) - 1

\* proto.Marshal of an Any: the type URL and the value, each after its length
Marshal(any) ==
    <<LenByte(Len(any.typeUrl))>> \o any.typeUrl \o <<LenByte(Len(any.value))>> \o any.value
\* proto.Unmarshal into an Any: the bytes it can decode, and what it decodes
Decodable(b) ==
    /\ Len(b) >= 2
    /\ \E n, m \in 0..(Len(Digits) - 1) :
        /\ b[1] = LenByte(n)
        /\ Len(b) = n + 2 + m
        /\ b[n + 2] = LenByte(m)
Unmarshal(b) ==
    LET n == ByteLen(b[1])
        m == ByteLen(b[n + 2])
    IN AnyProto(SubSeq(b, 2, n + 1), SubSeq(b, n + 3, n + 2 + m))

\* pb.Record and db.Record
WireRecord(name, id, data, etag) == [Name |-> name, Id |-> id, Data |-> data, Etag |-> etag]
DbRecord(parent, resultID, resultName, name, id, data) ==
    [Parent |-> parent, ResultID |-> resultID, ResultName |-> resultName,
     Name |-> name, ID |-> id, Data |-> data]

\* ToStorage(parent, resultName, resultID, name, r)
ToStorage_NameFromRecord(parent, resultName, resultID, name, r) ==
    DbRecord(parent, resultID, resultName, r.Name, r.Id,
             IF r.Data.set THEN Bytes(Marshal(r.Data)) ELSE NoBytes)
ToStorage(parent, resultName, resultID, name, r) ==
    DbRecord(parent, resultID, resultName, name, r.Id,
             IF r.Data.set THEN Bytes(Marshal(r.Data)) ELSE NoBytes)

\* ToAPI(r): the wire record, or an error when the stored bytes do not decode
Converted(rec) == [err |-> FALSE, rec |-> rec]
ConversionError == [err |-> TRUE, rec |-> WireRecord(<<>>, <<>>, NoData, <<>>)]
ToAPI_DropData(r) ==
    Converted(WireRecord(FullName(r.Parent, r.ResultName, r.Name), r.ID, NoData, <<>>))
ToAPI(r) ==
    IF r.Data.set /\ ~Decodable(r.Data.bytes)
    THEN ConversionError
    ELSE Converted(WireRecord(FullName(r.Parent, r.ResultName, r.Name), r.ID,
                              IF r.Data.set THEN Unmarshal(r.Data.bytes) ELSE NoData,
                              <<>>))

NoArgs == [parent |-> <<>>, resultName |-> <<>>, resultID |-> <<>>, name |-> <<>>]
NoWire == WireRecord(<<>>, <<>>, NoData, <<>>)
NoDb == DbRecord(<<>>, <<>>, <<>>, <<>>, <<>>, NoBytes)

\* the record package at rest
CodecIdle ==
    /\ raw = <<>>
    /\ parsed = ParseError
    /\ args = NoArgs
    /\ wire = NoWire
    /\ stored = NoDb
    /\ api = NoWire
    /\ stage = "none"

\* a TaskRun as the pass holds it (tr, and trProto after the conversion):
\* metadata namespace, name and the annotation, and the content version
TaskRun(namespace, name, ver, ann) ==
    [namespace |-> namespace, name |-> name, ver |-> ver, ann |-> ann]
NoTr == TaskRun(<<>>, <<>>, 0, NoAnn)

\* convert.ToTaskRunProto(tr): the proto carries the metadata and the content
ToTaskRunProto(namespace, name, o) == TaskRun(namespace, name, o.ver, o.ann)

\* &pb.Execution{Execution: &pb.Execution_TaskRun{TaskRun: trProto}}
NewExecution(trProto) == [kind |-> "TaskRun", taskRun |-> trProto]
\* an Execution of another variant: GetTaskRun() returns nil
OtherExec == [kind |-> "Other", taskRun |-> NoTr]

\* the condition of the linear scan: the execution is a TaskRun of this
\* namespace and name
Matches_NameOnly(execution, t) ==
    /\ execution.kind = "TaskRun"
    /\ execution.taskRun.name = t.name
Matches_Swapped(execution, t) ==
    /\ execution.kind = "TaskRun"
    /\ execution.taskRun.namespace = t.name
    /\ execution.taskRun.name = t.namespace
Matches(execution, t) ==
    /\ execution.kind = "TaskRun"
    /\ execution.taskRun.namespace = t.namespace
    /\ execution.taskRun.name = t.name

\* the branch of line 65: the annotation is present on the fetched TaskRun
Branch_AlwaysCreate(t) == "CreateResult"
Branch_Inverted(t) == IF t.ann # NoAnn THEN "CreateResult" ELSE "GetResult"
Branch_SearchStore(t) ==
    IF \E id \in DOMAIN store : \E i \in 1..Len(store[id]) : Matches(store[id][i], t)
    THEN "GetResult" ELSE "CreateResult"
Branch(t) == IF t.ann # NoAnn THEN "GetResult" ELSE "CreateResult"

\* the scan of result.Executions and the append after it
Upsert_FirstOnly(executions, t) ==
    LET hits == {idx \in 1..Len(executions) : Matches(executions[idx], t)}
    IN IF hits = {}
       THEN Append(executions, NewExecution(t))
       ELSE LET first == CHOOSE idx \in hits : \A h \in hits : idx <= h
            IN [executions EXCEPT ![first] = NewExecution(t)]
Upsert_Reset(executions, t) ==
    LET found == \E idx \in 1..Len(executions) : Matches(executions[idx], t)
        replaced == [idx \in 1..Len(executions) |->
                        IF Matches(executions[idx], t)
                        THEN NewExecution(t)
                        ELSE executions[idx]]
    IN IF found THEN replaced ELSE <<NewExecution(t)>>
Upsert(executions, t) ==
    LET found == \E idx \in 1..Len(executions) : Matches(executions[idx], t)
        replaced == [idx \in 1..Len(executions) |->
                        IF Matches(executions[idx], t)
                        THEN NewExecution(t)
                        ELSE executions[idx]]
    IN IF found THEN replaced ELSE Append(executions, NewExecution(t))

\* the Executions of the Result of the CreateResultRequest
CreateRequest_Empty(t) == <<>>
CreateRequest_Other(t) == <<OtherExec>>
CreateRequest(t) == <<NewExecution(t)>>

\* what Reconcile returns when the key cannot be split (line 44), when the
\* TaskRun is not found (line 51) and when UpdateResult fails (line 86)
InvalidKeyReturn == "nil"
NotFoundReturn_Err == "err"
NotFoundReturn == "nil"

\* Executions of the Result (identifier 0) that may exist before the
\* reconciler starts; other clients of the service may have written any of
\* these (p/b is a TaskRun that is no longer in the cluster).
InitExecutions ==
    { <<>>,
      <<NewExecution(TaskRun(<<"p">>, <<"a">>, 0, NoAnn))>>,
      <<OtherExec, NewExecution(TaskRun(<<"q">>, <<"a">>, 0, 0)),
        NewExecution(TaskRun(<<"p">>, <<"b">>, 0, 0))>>,
      <<NewExecution(TaskRun(<<"p">>, <<"a">>, 0, 0)),
        NewExecution(TaskRun(<<"p">>, <<"b">>, 0, 0)),
        NewExecution(TaskRun(<<"p">>, <<"a">>, 0, 0))>> }

\* one entry of calls[k]: the step, the identifier it carried or returned,
\* the Executions it carried or returned, its error ("" when it succeeded)
Call(op, id, list, err) == [op |-> op, id |-> id, list |-> list, err |-> err]

Last(s) == s[Len(s)]

Init ==
    /\ obj \in [Objs -> [exists : {TRUE}, ann : {NoAnn, 0}, ver : {0}]]
    /\ \/ store = <<>>
       \/ \E l \in InitExecutions : store = (0 :> l)
    /\ alive = TRUE
    /\ pc = [k \in Keys |-> "idle"]
    /\ tr = [k \in Keys |-> NoTr]
    /\ result = [k \in Keys |-> <<>>]
    /\ trResult = [k \in Keys |-> NoId]
    /\ calls = [k \in Keys |-> <<>>]
    /\ outcome = [k \in Keys |-> "none"]
    /\ npass = [k \in Keys |-> 0]
    /\ failed = [k \in Keys |-> FALSE]
    /\ creator = <<>>
    /\ obj0 = obj
    /\ restarts = 0
    /\ CodecIdle

TotalPasses == npass[KeyPA] + npass[KeyQA] + npass[KeyBad]

\* the pass for k ends with ret: "nil" or "err" returned to the dispatcher
Return(k, ret) ==
    /\ pc' = [pc EXCEPT ![k] = "idle"]
    /\ outcome' = [outcome EXCEPT ![k] = ret]
    /\ result' = [result EXCEPT ![k] = <<>>]
    /\ trResult' = [trResult EXCEPT ![k] = NoId]
    /\ failed' = [failed EXCEPT ![k] = @ \/ Last(calls'[k]).err # ""]

\* logger.Fatalf (line 68): the process ends, and the pass with it
Fatalf(k) ==
    /\ alive' = FALSE
    /\ pc' = [pc EXCEPT ![k] = "idle"]
    /\ outcome' = [outcome EXCEPT ![k] = "fatal"]
    /\ failed' = [failed EXCEPT ![k] = TRUE]
    /\ UNCHANGED <<result, trResult>>

\* Reconcile fails at UpdateResult (lines 84-87)
UpdateFailed_Retry(k) ==
    IF Len(calls'[k]) < 6
    THEN UNCHANGED <<pc, outcome, result, trResult, failed>>
    ELSE Return(k, "err")
UpdateFailed(k) == Return(k, "err")

\* Reconcile, lines 38-46: the dispatcher delivers key k; the key is split
Dispatch(k) ==
    LET s == SplitMetaNamespaceKey(k) IN
    /\ alive
    /\ pc[k] = "idle"
    /\ TotalPasses < MaxPasses
    /\ npass' = [npass EXCEPT ![k] = @ + 1]
    /\ calls' = [calls EXCEPT ![k] =
                    <<Call("SplitMetaNamespaceKey", NoId, <<>>,
                           IF s.err THEN "Error" ELSE "")>>]
    /\ tr' = [tr EXCEPT ![k] = NoTr]
    /\ IF s.err
       THEN Return(k, InvalidKeyReturn)
       ELSE /\ pc' = [pc EXCEPT ![k] = "Get"]
            /\ outcome' = [outcome EXCEPT ![k] = "running"]
            /\ UNCHANGED <<result, trResult, failed>>
    /\ UNCHANGED <<obj, store, alive, creator, obj0, codec, restarts>>

\* Reconcile, lines 48-65: TaskRuns(namespace).Get, the conversion and the
\* choice of the branch
GetTaskRun(k) ==
    LET s == SplitMetaNamespaceKey(k)
        o == <<s.namespace, s.name>>
        present == o \in Objs /\ obj[o].exists
    IN
    /\ alive
    /\ pc[k] = "Get"
    /\ \E getErr \in {"", "Error"}, convertErr \in {"", "Error"} :
        IF ~present
        THEN \* errors.IsNotFound(err)
             /\ calls' = [calls EXCEPT ![k] = Append(@, Call("Get", NoId, <<>>, "NotFound"))]
             /\ Return(k, NotFoundReturn)
             /\ UNCHANGED tr
        ELSE IF getErr # ""
        THEN /\ calls' = [calls EXCEPT ![k] = Append(@, Call("Get", NoId, <<>>, getErr))]
             /\ Return(k, "err")
             /\ UNCHANGED tr
        ELSE LET trProto == ToTaskRunProto(s.namespace, s.name, obj[o]) IN
             /\ calls' = [calls EXCEPT ![k] =
                            @ \o <<Call("Get", obj[o].ann, <<>>, ""),
                                   Call("ToTaskRunProto", NoId, <<>>, convertErr)>>]
             /\ tr' = [tr EXCEPT ![k] = trProto]
             /\ IF convertErr # ""
                THEN Return(k, "err")
                ELSE /\ pc' = [pc EXCEPT ![k] = Branch(trProto)]
                     /\ UNCHANGED <<outcome, result, trResult, failed>>
    /\ UNCHANGED <<obj, store, alive, npass, creator, obj0, codec, restarts>>

\* Reconcile, lines 66-80: GetResult, then the scan and the append.  A failed
\* GetResult ends in logger.Fatalf.
GetResult(k) ==
    LET resultID == tr[k].ann IN
    /\ alive
    /\ pc[k] = "GetResult"
    /\ \E callErr \in {"", "Error"} :
        LET err == IF resultID \notin DOMAIN store THEN "NotFound" ELSE callErr IN
        /\ calls' = [calls EXCEPT ![k] =
                        Append(@, Call("GetResult", resultID,
                                       IF err = "" THEN store[resultID] ELSE <<>>, err))]
        /\ IF err = ""
           THEN /\ result' = [result EXCEPT ![k] = Upsert(store[resultID], tr[k])]
                /\ pc' = [pc EXCEPT ![k] = "UpdateResult"]
                /\ UNCHANGED <<alive, outcome, trResult, failed>>
           ELSE Fatalf(k)
    /\ UNCHANGED <<obj, store, tr, npass, creator, obj0, codec, restarts>>

\* UpdateResult as a change applied to the Result the service holds now
\* (a partial update), instead of the replacement of the whole Result
UpdateResult_Merge(k) ==
    LET resultID == tr[k].ann IN
    /\ alive
    /\ pc[k] = "UpdateResult"
    /\ \E callErr \in {"", "Error"} :
        LET err == IF resultID \notin DOMAIN store THEN "NotFound" ELSE callErr IN
        /\ calls' = [calls EXCEPT ![k] =
                        Append(@, Call("UpdateResult", resultID, result[k], err))]
        /\ IF err = ""
           THEN /\ store' = [store EXCEPT ![resultID] = Upsert(@, tr[k])]
                /\ Return(k, "nil")
           ELSE /\ UpdateFailed(k)
                /\ UNCHANGED store
    /\ UNCHANGED <<obj, alive, tr, npass, creator, obj0, codec, restarts>>

\* Reconcile, lines 81-88: UpdateResult replaces the whole Result
UpdateResult(k) ==
    LET resultID == tr[k].ann IN
    /\ alive
    /\ pc[k] = "UpdateResult"
    /\ \E callErr \in {"", "Error"} :
        LET err == IF resultID \notin DOMAIN store THEN "NotFound" ELSE callErr IN
        /\ calls' = [calls EXCEPT ![k] =
                        Append(@, Call("UpdateResult", resultID, result[k], err))]
        /\ IF err = ""
           THEN /\ store' = [store EXCEPT ![resultID] = result[k]]
                /\ Return(k, "nil")
           ELSE /\ UpdateFailed(k)
                /\ UNCHANGED store
    /\ UNCHANGED <<obj, alive, tr, npass, creator, obj0, codec, restarts>>

\* Reconcile, lines 90-105: CreateResult with one Execution, then the
\* computation of the patch (annotation.AddResultID)
CreateResult(k) ==
    LET id == Len(creator) + 1 IN
    /\ alive
    /\ pc[k] = "CreateResult"
    /\ \E callErr \in {"", "Error"}, patchErr \in {"", "Error"} :
        LET err == IF Len(creator) < MaxResults THEN callErr ELSE "Error" IN
        IF err # ""
        THEN /\ calls' = [calls EXCEPT ![k] =
                            Append(@, Call("CreateResult", NoId, CreateRequest(tr[k]), err))]
             /\ Return(k, "err")
             /\ UNCHANGED <<store, creator>>
        ELSE /\ calls' = [calls EXCEPT ![k] =
                            @ \o <<Call("CreateResult", id, CreateRequest(tr[k]), ""),
                                   Call("AddResultID", id, <<>>, patchErr)>>]
             /\ store' = (id :> CreateRequest(tr[k])) @@ store
             /\ creator' = Append(creator, k)
             /\ IF patchErr # ""
                THEN Return(k, "err")
                ELSE /\ trResult' = [trResult EXCEPT ![k] = id]
                     /\ pc' = [pc EXCEPT ![k] = "Patch"]
                     /\ UNCHANGED <<outcome, result, failed>>
    /\ UNCHANGED <<obj, alive, tr, npass, obj0, codec, restarts>>

\* Reconcile, lines 106-113: TaskRuns(tr.Namespace).Patch adds the annotation
Patch(k) ==
    LET o == <<tr[k].namespace, tr[k].name>> IN
    /\ alive
    /\ pc[k] = "Patch"
    /\ \E callErr \in {"", "Error"} :
        LET err == IF ~obj[o].exists THEN "NotFound" ELSE callErr IN
        /\ calls' = [calls EXCEPT ![k] = Append(@, Call("Patch", trResult[k], <<>>, err))]
        /\ IF err = ""
           THEN /\ obj' = [obj EXCEPT ![o].ann = trResult[k]]
                /\ Return(k, "nil")
           ELSE /\ Return(k, "err")
                /\ UNCHANGED obj
    /\ UNCHANGED <<store, alive, tr, npass, creator, obj0, codec, restarts>>

\* the process, ended by logger.Fatalf, is started again: every pass that was
\* in flight is gone and its key will be delivered again
Restart ==
    /\ ~alive
    /\ restarts < MaxRestarts
    /\ restarts' = restarts + 1
    /\ alive' = TRUE
    /\ pc' = [k \in Keys |-> "idle"]
    /\ outcome' = [k \in Keys |-> IF pc[k] # "idle" THEN "cut" ELSE outcome[k]]
    /\ failed' = [k \in Keys |-> failed[k] \/ pc[k] # "idle"]
    /\ result' = [k \in Keys |-> <<>>]
    /\ trResult' = [k \in Keys |-> NoId]
    /\ UNCHANGED <<obj, store, tr, calls, npass, creator, obj0, codec>>

RECURSIVE SumChanges(_)
SumChanges(S) ==
    IF S = {} THEN 0
    ELSE LET o == CHOOSE x \in S : TRUE
         IN obj[o].ver + (IF obj[o].exists THEN 0 ELSE 1) + SumChanges(S \ {o})

\* changes made so far by the owners of the TaskRuns
Changes == SumChanges(Objs)

\* the owner of TaskRun o deletes it
DeleteTaskRun(o) ==
    /\ obj[o].exists
    /\ Changes < MaxChanges
    /\ obj' = [obj EXCEPT ![o].exists = FALSE]
    /\ UNCHANGED <<store, alive, pc, tr, result, trResult, calls, outcome, npass,
                   failed, creator, obj0, codec, restarts>>

\* the owner of TaskRun o changes its content (spec, status)
MutateTaskRun(o) ==
    /\ obj[o].exists
    /\ Changes < MaxChanges
    /\ obj' = [obj EXCEPT ![o].ver = @ + 1]
    /\ UNCHANGED <<store, alive, pc, tr, result, trResult, calls, outcome, npass,
                   failed, creator, obj0, codec, restarts>>

Next ==
    \/ \E k \in Keys : Dispatch(k)
    \/ \E k \in Keys : GetTaskRun(k)
    \/ \E k \in Keys : GetResult(k)
    \/ \E k \in Keys : UpdateResult(k)
    \/ \E k \in Keys : CreateResult(k)
    \/ \E k \in Keys : Patch(k)
    \/ Restart
    \/ \E o \in Objs : DeleteTaskRun(o)
    \/ \E o \in Objs : MutateTaskRun(o)

Spec == Init /\ [][Next]_vars

\* Passes that end: every call of a pass returns (the calls are synchronous
\* and the services answer), and a process that ended is started again.  The
\* reconciler starts with one Result in the store, which holds an Execution
\* of p/a, so that with two annotated TaskRuns one pass replaces and the
\* other appends.
FairInit ==
    /\ Init
    /\ store = (0 :> <<NewExecution(TaskRun(<<"p">>, <<"a">>, 0, NoAnn))>>)

FairSpec ==
    /\ FairInit
    /\ [][Next]_vars
    /\ \A k \in Keys : WF_vars(GetTaskRun(k) \/ GetResult(k) \/ UpdateResult(k)
                                  \/ CreateResult(k) \/ Patch(k))
    /\ WF_vars(Restart)

\* the variables of the reconciler
reconciler == <<obj, store, alive, pc, tr, result, trResult, calls, outcome, npass,
                failed, creator, obj0, restarts>>

\* the reconciler at rest, with no Result and no annotation
ReconcilerIdle ==
    /\ obj = [o \in Objs |-> [exists |-> TRUE, ann |-> NoAnn, ver |-> 0]]
    /\ store = <<>>
    /\ alive = TRUE
    /\ pc = [k \in Keys |-> "idle"]
    /\ tr = [k \in Keys |-> NoTr]
    /\ result = [k \in Keys |-> <<>>]
    /\ trResult = [k \in Keys |-> NoId]
    /\ calls = [k \in Keys |-> <<>>]
    /\ outcome = [k \in Keys |-> "none"]
    /\ npass = [k \in Keys |-> 0]
    /\ failed = [k \in Keys |-> FALSE]
    /\ creator = <<>>
    /\ obj0 = obj
    /\ restarts = 0

\* the inputs of TestParseName and what each must return
TestParseNameCases ==
    { [in |-> Join(<<StrA, StrResults, StrB, StrRecords, StrC>>),
       want |-> Parsed(StrA, StrB, StrC)],
      [in |-> Join(<<StrResults, StrResults, StrRecords, StrRecords, StrRecords>>),
       want |-> Parsed(StrResults, StrRecords, StrRecords)],
      [in |-> Join(<<StrA, StrResults, StrB, StrRecords, <<>> >>), want |-> ParseError],
      [in |-> Join(<< <<>>, StrRecords, StrB>>), want |-> ParseError],
      [in |-> Join(<<StrRecords, StrB>>), want |-> ParseError],
      [in |-> Join(<<StrA, StrTacocat, StrB, StrRecords, StrC>>), want |-> ParseError],
      [in |-> Join(<<StrA, StrResults, StrB>>), want |-> ParseError],
      [in |-> Join(<<StrA, StrB, StrResults, StrC>>), want |-> ParseError],
      [in |-> Join(<<StrA, StrResults, StrB, StrRecords, StrC, StrD>>), want |-> ParseError] }

\* the segments names are built from, and the names given to ParseName:
\* every name of up to MaxParts segments, and the names of TestParseName
Segments == {<<>>, StrA, StrSpaceA, StrResults, StrRecords}
NameInputs ==
    {Join(l) : l \in UNION {[1..n -> Segments] : n \in 1..MaxParts}}
        \cup {tc.in : tc \in TestParseNameCases}

\* ParseName is called on a name
NameInit ==
    /\ ReconcilerIdle
    /\ raw \in NameInputs
    /\ parsed = ParseError
    /\ args = NoArgs
    /\ wire = NoWire
    /\ stored = NoDb
    /\ api = NoWire
    /\ stage = "name"

ParseNameStep ==
    /\ stage = "name"
    /\ parsed' = ParseName(raw)
    /\ stage' = "ParseName"
    /\ UNCHANGED <<reconciler, raw, args, wire, stored, api>>

NameSpec == NameInit /\ [][ParseNameStep]_vars

\* the arguments, payloads and records given to the converters
ArgInputs ==
    [parent : {StrFoo, StrA}, resultName : {StrBar, StrB}, resultID : {Str1},
     name : {StrBaz, StrC}]
TestData == AnyProto(StrTaskRun, StrTacocat)
DataInputs == {NoData, TestData, AnyProto(StrTaskRun, <<>>), AnyProto(<<>>, <<>>)}
WireInputs ==
    { WireRecord(n, id, data, etag) :
        n \in {FullName(a.parent, a.resultName, a.name) : a \in ArgInputs}
                \cup {Join(<<StrFoo, StrResults, StrBar>>)},
        id \in {StrA, <<>>},
        data \in DataInputs,
        etag \in {<<>>, StrTacocat} }
DbInputs ==
    { DbRecord(a.parent, a.resultID, a.resultName, a.name, id, data) :
        a \in ArgInputs,
        id \in {StrA, <<>>},
        data \in {NoBytes, Bytes(StrTacocat), Bytes(<<"7">>)}
                    \cup {Bytes(Marshal(d)) : d \in DataInputs \ {NoData}} }

\* the cases of TestToStorage and TestToAPI
TestArgs == [parent |-> StrFoo, resultName |-> StrBar, resultID |-> Str1, name |-> StrBaz]
TestToStorageCases ==
    { [in |-> WireRecord(Join(<<StrFoo, StrResults, StrBar>>), StrA, TestData, StrTacocat),
       want |-> DbRecord(StrFoo, Str1, StrBar, StrBaz, StrA, Bytes(Marshal(TestData)))],
      [in |-> WireRecord(Join(<<StrFoo, StrResults, StrBar>>), StrA, NoData, <<>>),
       want |-> DbRecord(StrFoo, Str1, StrBar, StrBaz, StrA, NoBytes)] }
TestToAPICases ==
    { [in |-> DbRecord(StrFoo, Str1, StrBar, StrBaz, StrA, Bytes(Marshal(TestData))),
       want |-> WireRecord(Join(<<StrFoo, StrResults, StrBar, StrRecords, StrBaz>>),
                           StrA, TestData, <<>>)],
      [in |-> DbRecord(StrFoo, Str1, StrBar, StrBaz, StrA, NoBytes),
       want |-> WireRecord(Join(<<StrFoo, StrResults, StrBar, StrRecords, StrBaz>>),
                           StrA, NoData, <<>>)] }

\* a converter is called: ToStorage on a wire record, or ToAPI on a stored one
RecordInit ==
    /\ ReconcilerIdle
    /\ raw = <<>>
    /\ parsed = ParseError
    /\ api = NoWire
    /\ \/ /\ stage = "wire"
          /\ args \in ArgInputs
          /\ wire \in WireInputs
          /\ stored = NoDb
       \/ /\ stage = "db"
          /\ args = NoArgs
          /\ wire = NoWire
          /\ stored \in DbInputs

ToStorageStep ==
    /\ stage = "wire"
    /\ stored' = ToStorage(args.parent, args.resultName, args.resultID, args.name, wire)
    /\ stage' = "ToStorage"
    /\ UNCHANGED <<reconciler, raw, parsed, args, wire, api>>

ToAPIStep ==
    /\ stage \in {"ToStorage", "db"}
    /\ LET got == ToAPI(stored)
       IN /\ api' = got.rec
          /\ stage' = IF got.err THEN "ToAPIError" ELSE "ToAPI"
    /\ UNCHANGED <<reconciler, raw, parsed, args, wire, stored>>

RecordNext ==
    \/ ToStorageStep
    \/ ToAPIStep

RecordSpec == RecordInit /\ [][RecordNext]_vars

\* ------------------------------------------------------------ properties
ValidKeys == {k \in Keys : ~SplitMetaNamespaceKey(k).err}
ObjOf(k) == <<SplitMetaNamespaceKey(k).namespace, SplitMetaNamespaceKey(k).name>>
RemoteOps == {"Get", "GetResult", "UpdateResult", "CreateResult", "Patch"}
IsRemote(c) == c.op \in RemoteOps
\* the names of the remote calls of the current (or last) pass for k, in order
RemoteNames(k) ==
    LET r == SelectSeq(calls[k], IsRemote) IN [i \in 1..Len(r) |-> r[i].op]
IsPrefix(s, t) == Len(s) <= Len(t) /\ SubSeq(t, 1, Len(s)) = s
\* the Results that passes for k created
Created(k) == {id \in 1..Len(creator) : creator[id] = k}
\* the step of calls[k] named op succeeded in the current (or last) pass
Did(k, op) == \E i \in 1..Len(calls[k]) : calls[k][i].op = op /\ calls[k][i].err = ""
\* the entry of calls[k] named op
Entry(k, op) == calls[k][CHOOSE i \in 1..Len(calls[k]) : calls[k][i].op = op]
\* the Execution is a TaskRun with the namespace and name of key k
IsExecutionOf(e, k) ==
    /\ e.kind = "TaskRun"
    /\ e.taskRun.namespace = SplitMetaNamespaceKey(k).namespace
    /\ e.taskRun.name = SplitMetaNamespaceKey(k).name

\* C1 (as stated): CreateResult succeeds at most once for a TaskRun, over
\* all passes for its key, failed and redelivered passes included.
C1_ExactlyOnce ==
    \A k \in ValidKeys : Cardinality(Created(k)) <= 1

\* C1 (amended): a pass creates a Result only for a TaskRun fetched without
\* the annotation; of the Results created for a TaskRun at most one is
\* referenced by it or about to be patched onto it, and once the annotation
\* is set no later pass for the key creates a Result.  More than one Result
\* exists only when a pass ended between CreateResult and the Patch.
C1_CreateOncePatched ==
    \A k \in ValidKeys :
        LET ids == Created(k)
            ann == obj[ObjOf(k)].ann
        IN /\ Cardinality({id \in ids : ann = id \/ trResult[k] = id}) <= 1
           /\ ann \in ids => \A id \in ids : id <= ann
           /\ obj0[ObjOf(k)].ann # NoAnn => ids = {}
           /\ pc[k] \in {"CreateResult", "Patch"} => ann = NoAnn

C1_Witness ==
    \E k \in ValidKeys :
        /\ Cardinality(Created(k)) = 2
        /\ obj[ObjOf(k)].ann \in Created(k)
        /\ pc[k] = "idle" /\ outcome[k] = "nil"

\* C2: for a TaskRun that starts without the annotation, while no call
\* fails, the first pass issues Get, CreateResult, Patch and nothing else,
\* and every later pass issues Get, GetResult (of the Result created by the
\* first pass), UpdateResult and nothing else; every such pass returns nil.
C2_CreateThenUpdate ==
    \A k \in ValidKeys :
        (obj0[ObjOf(k)].ann = NoAnn /\ ~failed[k] /\ npass[k] >= 1) =>
            LET want == IF npass[k] = 1
                        THEN <<"Get", "CreateResult", "Patch">>
                        ELSE <<"Get", "GetResult", "UpdateResult">>
            IN /\ IsPrefix(RemoteNames(k), want)
               /\ pc[k] = "idle" => RemoteNames(k) = want /\ outcome[k] = "nil"
               /\ Cardinality(Created(k)) <= 1
               /\ (npass[k] > 1 /\ Len(RemoteNames(k)) >= 2) =>
                      Entry(k, "GetResult").id \in Created(k)

C2_Witness ==
    \E k \in ValidKeys :
        /\ obj0[ObjOf(k)].ann = NoAnn /\ ~failed[k]
        /\ npass[k] = 2 /\ pc[k] = "idle" /\ outcome[k] = "nil"
        /\ RemoteNames(k) = <<"Get", "GetResult", "UpdateResult">>

\* C3: once the fetch and the conversion succeeded, the pass goes to
\* GetResult exactly when the fetched TaskRun carries the annotation and to
\* CreateResult exactly when it does not, whatever the store holds.
C3_BranchByAnnotation ==
    \A k \in ValidKeys :
        Did(k, "ToTaskRunProto") =>
            LET present == Entry(k, "Get").id # NoAnn
                branch == IF present THEN "GetResult" ELSE "CreateResult"
                other == IF present THEN "CreateResult" ELSE "GetResult"
            IN /\ Len(calls[k]) >= 4 => calls[k][4].op = branch
               /\ (Len(calls[k]) = 3 /\ pc[k] # "idle") => pc[k] = branch
               /\ \A i \in 1..Len(calls[k]) : calls[k][i].op # other
               /\ pc[k] # other

C3_Witness ==
    \E k \in ValidKeys :
        /\ pc[k] = "Patch"
        /\ \E id \in DOMAIN store \ {trResult[k]} :
              \E i \in 1..Len(store[id]) : IsExecutionOf(store[id][i], k)

\* C4: the Result given to CreateResult holds exactly one Execution, the
\* TaskRun converted from the fetched object; Patch is issued only after
\* CreateResult returned without error and carries the identifier it
\* returned; after a pass that returned nil the annotation of the TaskRun is
\* that identifier.
C4_CreateBranch ==
    \A k \in ValidKeys :
        /\ \A i \in 1..Len(calls[k]) :
              /\ calls[k][i].op = "CreateResult" =>
                    /\ calls[k][i].list = <<[kind |-> "TaskRun", taskRun |-> tr[k]]>>
                    /\ tr[k].namespace = SplitMetaNamespaceKey(k).namespace
                    /\ tr[k].name = SplitMetaNamespaceKey(k).name
                    /\ tr[k].ann = Entry(k, "Get").id
              /\ calls[k][i].op = "Patch" =>
                    /\ Did(k, "CreateResult")
                    /\ calls[k][i].id = Entry(k, "CreateResult").id
                    /\ calls[k][i].id \in DOMAIN store
        /\ pc[k] = "Patch" =>
              Did(k, "CreateResult") /\ trResult[k] = Entry(k, "CreateResult").id
        /\ (Did(k, "Patch") /\ obj[ObjOf(k)].exists) =>
              /\ outcome[k] = "nil"
              /\ obj[ObjOf(k)].ann = Entry(k, "CreateResult").id
              /\ store[obj[ObjOf(k)].ann][1].taskRun.name = SplitMetaNamespaceKey(k).name

C4_Witness ==
    \E k \in ValidKeys :
        /\ Did(k, "Patch") /\ outcome[k] = "nil"
        /\ obj[ObjOf(k)].ann = Entry(k, "CreateResult").id
        /\ tr[k].ver = 1

\* the entry of GetResult and the entry of UpdateResult of the pass for k
Fetched(k) == Entry(k, "GetResult").list
Sent(k) == Entry(k, "UpdateResult").list
IssuedUpdate(k) == \E i \in 1..Len(calls[k]) : calls[k][i].op = "UpdateResult"

\* C5: when the fetched Result holds an Execution with the namespace and
\* name of the TaskRun, the list given to UpdateResult is as long as the
\* fetched one, holds the new Execution at every matching position and the
\* fetched Execution, at its index, at every other position.
C5_ReplaceInPlace ==
    \A k \in ValidKeys :
        (IssuedUpdate(k) /\ \E j \in 1..Len(Fetched(k)) : IsExecutionOf(Fetched(k)[j], k)) =>
            /\ Did(k, "GetResult")
            /\ Len(Sent(k)) = Len(Fetched(k))
            /\ \A j \in 1..Len(Fetched(k)) :
                  Sent(k)[j] = IF IsExecutionOf(Fetched(k)[j], k)
                               THEN [kind |-> "TaskRun", taskRun |-> tr[k]]
                               ELSE Fetched(k)[j]

C5_Witness ==
    \E k \in ValidKeys :
        /\ Did(k, "UpdateResult")
        /\ Cardinality({j \in 1..Len(Fetched(k)) : IsExecutionOf(Fetched(k)[j], k)}) = 2
        /\ \E j \in 1..Len(Fetched(k)) : ~IsExecutionOf(Fetched(k)[j], k)
        /\ \A j \in 1..Len(Fetched(k)) : Fetched(k)[j].taskRun # tr[k]
        /\ store[Entry(k, "UpdateResult").id] = Sent(k)

\* C6: when no Execution of the fetched Result has the namespace and name
\* of the TaskRun (the empty list included), the list given to UpdateResult
\* is the fetched list followed by one new Execution for the TaskRun.
C6_Accretion ==
    \A k \in ValidKeys :
        (IssuedUpdate(k) /\ \A j \in 1..Len(Fetched(k)) : ~IsExecutionOf(Fetched(k)[j], k)) =>
            /\ Did(k, "GetResult")
            /\ Sent(k) = Fetched(k) \o <<[kind |-> "TaskRun", taskRun |-> tr[k]]>>
            /\ Len(Sent(k)) = Len(Fetched(k)) + 1

C6_Witness ==
    \E k \in ValidKeys :
        /\ Did(k, "UpdateResult")
        /\ \A j \in 1..Len(Fetched(k)) : ~IsExecutionOf(Fetched(k)[j], k)
        /\ \E j \in 1..Len(Fetched(k)) :
              /\ Fetched(k)[j].kind = "TaskRun"
              /\ Fetched(k)[j].taskRun.name = SplitMetaNamespaceKey(k).name
        /\ store[Entry(k, "UpdateResult").id] = Sent(k)

\* the pass for k takes the step in which TaskRuns.Get answers NotFound
TombstoneStep(k) ==
    /\ pc[k] = "Get"
    /\ calls'[k] # calls[k]
    /\ Last(calls'[k]).op = "Get"
    /\ Last(calls'[k]).err = "NotFound"

\* C7: a pass whose TaskRuns.Get answers NotFound returns nil, has issued
\* no other call (no CreateResult, GetResult, UpdateResult, Patch), and its
\* step leaves the store of Results and the TaskRuns as they were.
C7_Tombstone ==
    /\ [](\A k \in ValidKeys :
            (\E i \in 1..Len(calls[k]) : calls[k][i].err = "NotFound" /\ calls[k][i].op = "Get") =>
                /\ RemoteNames(k) = <<"Get">>
                /\ pc[k] = "idle"
                /\ outcome[k] = "nil")
    /\ [][\A k \in ValidKeys : TombstoneStep(k) => store' = store /\ obj' = obj]_vars

C7_Witness ==
    \E k \in ValidKeys :
        /\ calls[k] # <<>>
        /\ Last(calls[k]).op = "Get" /\ Last(calls[k]).err = "NotFound"
        /\ outcome[k] = "nil"
        /\ obj[ObjOf(k)].ann # NoAnn
        /\ store # <<>>

\* C8 (as stated): when GetResult fails, the pass returns an error to the
\* dispatcher and issues no UpdateResult.
C8_GetResultFailureReturned ==
    \A k \in ValidKeys :
        (calls[k] # <<>> /\ Last(calls[k]).op = "GetResult" /\ Last(calls[k]).err # "") =>
            /\ pc[k] = "idle"
            /\ outcome[k] = "err"
            /\ ~IssuedUpdate(k)

\* C9 (as stated): a pass returns nil only if TaskRuns.Get answered NotFound
\* or every step succeeded; a pass in which any other step failed (the split
\* of the key included) returns an error.
C9_NoSilentSwallowing ==
    \A k \in Keys :
        (npass[k] >= 1 /\ pc[k] = "idle" /\ outcome[k] # "cut") =>
            LET tombstone == Last(calls[k]).op = "Get" /\ Last(calls[k]).err = "NotFound"
                clean == \A i \in 1..Len(calls[k]) : calls[k][i].err = ""
            IN /\ outcome[k] = "nil" => tombstone \/ clean
               /\ (~tombstone /\ ~clean) => outcome[k] = "err"

FailFastOps == {"Get", "ToTaskRunProto", "CreateResult", "UpdateResult", "AddResultID", "Patch"}
CountOps(k, ops) == Cardinality({i \in 1..Len(calls[k]) : calls[k][i].op \in ops})

\* C10: when TaskRuns.Get (other than NotFound), the conversion,
\* CreateResult, UpdateResult, the computation of the patch or Patch fails,
\* the pass returns an error at once: the failed step is its last, no step is
\* issued twice, a pass issues at most one Get, two calls of the results
\* service and one Patch, and every pass ends.
C10_FailFast ==
    /\ [](\A k \in ValidKeys :
            /\ \A i \in 1..(Len(calls[k]) - 1) : calls[k][i].err = ""
            /\ \A i, j \in 1..Len(calls[k]) : calls[k][i].op = calls[k][j].op => i = j
            /\ (calls[k] # <<>> /\ Last(calls[k]).err \notin {"", "NotFound"}
                    /\ Last(calls[k]).op \in FailFastOps) =>
                  pc[k] = "idle" /\ outcome[k] = "err"
            /\ (calls[k] # <<>> /\ Last(calls[k]).err = "NotFound"
                    /\ Last(calls[k]).op = "Patch") =>
                  pc[k] = "idle" /\ outcome[k] = "err"
            /\ CountOps(k, {"Get"}) <= 1
            /\ CountOps(k, {"GetResult", "UpdateResult", "CreateResult"}) <= 2
            /\ CountOps(k, {"Patch"}) <= 1)
    /\ \A k \in ValidKeys : (pc[k] # "idle") ~> (pc[k] = "idle" \/ ~alive)

C10_Witness ==
    \E k \in ValidKeys :
        /\ Len(calls[k]) = 5
        /\ Last(calls[k]).op = "UpdateResult" /\ Last(calls[k]).err = "Error"
        /\ pc[k] = "idle" /\ outcome[k] = "err"

\* the Result id holds an Execution of the TaskRun of key k
HoldsExecutionOf(id, k) ==
    /\ id \in DOMAIN store
    /\ \E i \in 1..Len(store[id]) : IsExecutionOf(store[id][i], k)

\* the pass for k takes the step in which CreateResult succeeds
CreateStep(k) ==
    /\ pc[k] = "CreateResult"
    /\ Len(creator') = Len(creator) + 1
    /\ creator'[Len(creator')] = k

\* C11: a pass that ends after CreateResult succeeded and without a
\* successful Patch (the computation of the patch or the Patch failed, or the
\* process ended) does not return nil, and returns an error when a step
\* failed; the Result it created stays in the store and no TaskRun refers to
\* it; the next pass for the key that fetches the TaskRun goes to
\* CreateResult, and when that call succeeds the store holds a second Result
\* with an Execution of the same TaskRun.
C11_OrphanDuplication ==
    /\ [](\A k \in ValidKeys :
            (Did(k, "CreateResult") /\ ~Did(k, "Patch") /\ pc[k] = "idle") =>
                /\ outcome[k] \in {"err", "cut"}
                /\ Last(calls[k]).err # "" => outcome[k] = "err"
                /\ HoldsExecutionOf(Entry(k, "CreateResult").id, k)
                /\ \A o \in Objs : obj[o].ann # Entry(k, "CreateResult").id)
    /\ [][\A k \in ValidKeys :
            /\ (pc[k] = "Get" /\ Created(k) # {} /\ obj[ObjOf(k)].ann = NoAnn
                    /\ pc'[k] \notin {"Get", "idle"}) =>
                  pc'[k] = "CreateResult"
            /\ (CreateStep(k) /\ Created(k) # {}) =>
                  /\ Len(creator') \notin Created(k)
                  /\ \A id \in Created(k) \cup {Len(creator')} :
                        /\ id \in DOMAIN store'
                        /\ \E i \in 1..Len(store'[id]) : IsExecutionOf(store'[id][i], k)
                  /\ \A id \in Created(k), o \in Objs : obj'[o].ann # id]_vars

C11_Witness ==
    \E k \in ValidKeys :
        /\ Created(k) = {1, 2}
        /\ pc[k] = "Patch"
        /\ HoldsExecutionOf(1, k) /\ HoldsExecutionOf(2, k)
        /\ \A o \in Objs : obj[o].ann \notin {1, 2}

\* the Executions of list s, as a set
Elems(s) == {s[i] : i \in 1..Len(s)}

\* the pass for k takes the step in which UpdateResult succeeds
UpdateStep(k) ==
    /\ pc[k] = "UpdateResult"
    /\ pc'[k] = "idle"
    /\ Last(calls'[k]).op = "UpdateResult"
    /\ Last(calls'[k]).err = ""

\* the latest passes for k1 and k2 both updated the same Result and returned nil
BothUpdated(k1, k2) ==
    /\ k1 # k2
    /\ Did(k1, "UpdateResult") /\ Did(k2, "UpdateResult")
    /\ Entry(k1, "UpdateResult").id = Entry(k2, "UpdateResult").id
    /\ outcome[k1] = "nil" /\ outcome[k2] = "nil"

\* C12: UpdateResult stores the list the pass computed from its own fetch,
\* whatever the service holds by then (last write wins).  So when two passes
\* for different keys update the same Result and the Result stored is the
\* one k2 sent, it holds the Execution k1 wrote only if k2 had fetched it:
\* when both fetched before either wrote, the update of k1 is lost although
\* both passes returned nil.
C12_LostUpdate ==
    /\ [][\A k \in ValidKeys :
            UpdateStep(k) =>
                /\ store'[tr[k].ann] = result[k]
                /\ \A id \in DOMAIN store \ {tr[k].ann} : store'[id] = store[id]]_vars
    /\ [](\A k1, k2 \in ValidKeys :
            (BothUpdated(k1, k2) /\ store[Entry(k2, "UpdateResult").id] = Sent(k2)
                /\ NewExecution(tr[k1]) \notin Elems(Fetched(k2))) =>
                NewExecution(tr[k1]) \notin Elems(store[Entry(k2, "UpdateResult").id]))

C12_Witness ==
    \E k1, k2 \in ValidKeys :
        /\ BothUpdated(k1, k2)
        /\ pc[k1] = "idle" /\ pc[k2] = "idle"
        /\ Fetched(k1) = Fetched(k2)
        /\ NewExecution(tr[k1]) \notin Elems(Fetched(k1))
        /\ NewExecution(tr[k1]) \in Elems(Sent(k1))
        /\ store[Entry(k2, "UpdateResult").id] = Sent(k2)
        /\ NewExecution(tr[k1]) \notin Elems(store[Entry(k2, "UpdateResult").id])

\* the entries of list s that are TaskRuns of (namespace, name) x
SlotsOf(s, x) ==
    {i \in 1..Len(s) : s[i].kind = "TaskRun"
                          /\ <<s[i].taskRun.namespace, s[i].taskRun.name>> = x}
\* the (namespace, name) pairs of the TaskRuns in list s
Identities(s) ==
    {<<s[i].taskRun.namespace, s[i].taskRun.name>> : i \in {j \in 1..Len(s) : s[j].kind = "TaskRun"}}
\* list s holds two TaskRuns with the same (namespace, name)
HasDuplicate(s) == \E x \in Identities(s) : Cardinality(SlotsOf(s, x)) >= 2

\* the latest passes for k1 and k2 both appended to the same fetched list
\* of the same Result, and both returned nil
BothAppended(k1, k2) ==
    /\ BothUpdated(k1, k2)
    /\ Fetched(k1) = Fetched(k2)
    /\ \A j \in 1..Len(Fetched(k1)) :
          ~IsExecutionOf(Fetched(k1)[j], k1) /\ ~IsExecutionOf(Fetched(k1)[j], k2)

\* C13 (as stated): when passes for different keys with the same Result
\* identifier both take the append path, the stored Result ends up with two
\* entries with the same (namespace, name).
C13_DuplicateAppend ==
    \A k1, k2 \in ValidKeys :
        (BothAppended(k1, k2) /\ pc[k1] = "idle" /\ pc[k2] = "idle") =>
            HasDuplicate(store[Entry(k1, "UpdateResult").id])

\* C13 (amended): no step raises the number of entries of a Result with a
\* given (namespace, name) above one, or above the number the Result already
\* held; when two appending passes for different keys raced on one fetched
\* list, the list either of them sent is the fetched list plus its own single
\* Execution, and the two Executions differ in (namespace, name).
C13_NoDuplicateAppend ==
    /\ [][\A id \in DOMAIN store' :
            \A x \in Identities(store'[id]) :
                \/ Cardinality(SlotsOf(store'[id], x)) <= 1
                \/ /\ id \in DOMAIN store
                   /\ Cardinality(SlotsOf(store'[id], x))
                        <= Cardinality(SlotsOf(store[id], x))]_vars
    /\ [](\A k1, k2 \in ValidKeys :
            BothAppended(k1, k2) =>
                /\ Sent(k1) = Append(Fetched(k1), NewExecution(tr[k1]))
                /\ Sent(k2) = Append(Fetched(k1), NewExecution(tr[k2]))
                /\ <<tr[k1].namespace, tr[k1].name>> # <<tr[k2].namespace, tr[k2].name>>
                /\ ~HasDuplicate(Fetched(k1)) => ~HasDuplicate(Sent(k1)) /\ ~HasDuplicate(Sent(k2)))

C13_Witness ==
    \E k1, k2 \in ValidKeys :
        /\ BothAppended(k1, k2)
        /\ pc[k1] = "idle" /\ pc[k2] = "idle"
        /\ store[Entry(k2, "UpdateResult").id] = Sent(k2)
        /\ Len(Sent(k2)) = Len(Fetched(k1)) + 1
        /\ Elems(store[Entry(k2, "UpdateResult").id]) = {NewExecution(tr[k2])}
        /\ ~HasDuplicate(store[Entry(k2, "UpdateResult").id])

\* C18: every TaskRun in the cluster that carries an annotation written by
\* the reconciler refers to a Result that is in the store and holds at least
\* one Execution with the namespace and name of that TaskRun.
C18_ReferentialIntegrity ==
    \A k \in ValidKeys :
        (obj[ObjOf(k)].exists /\ obj[ObjOf(k)].ann # obj0[ObjOf(k)].ann) =>
            /\ obj[ObjOf(k)].ann \in Created(k)
            /\ HoldsExecutionOf(obj[ObjOf(k)].ann, k)

C18_Witness ==
    \E k \in ValidKeys :
        /\ obj[ObjOf(k)].exists
        /\ obj[ObjOf(k)].ann # obj0[ObjOf(k)].ann
        /\ Did(k, "UpdateResult")
        /\ Entry(k, "UpdateResult").id = obj[ObjOf(k)].ann
        /\ store[obj[ObjOf(k)].ann] = <<NewExecution(TaskRun(tr[k].namespace, tr[k].name, 1,
                                                             obj[ObjOf(k)].ann))>>

\* the step is the successful Patch of the pass for k on TaskRun o
PatchStep(k, o) ==
    /\ ObjOf(k) = o
    /\ pc[k] = "Patch"
    /\ Did(k, "CreateResult")
    /\ tr[k].ann = NoAnn
    /\ obj[o].ann = NoAnn
    /\ obj'[o] = [obj[o] EXCEPT !.ann = Entry(k, "CreateResult").id]

\* C19: a step of the reconciler changes a TaskRun only by the Patch of a
\* CREATE pass, after its CreateResult succeeded, which adds the annotation
\* to a TaskRun that was fetched without it and changes nothing else; an
\* annotation, once present, is never changed or removed.
C19_SourceObjectFrame ==
    [][\A o \in Objs :
          /\ (calls' # calls /\ obj'[o] # obj[o]) => \E k \in ValidKeys : PatchStep(k, o)
          /\ obj'[o].ann # obj[o].ann => \E k \in ValidKeys : PatchStep(k, o)
          /\ obj[o].ann # NoAnn => obj'[o].ann = obj[o].ann]_vars

C19_Witness ==
    \E k1, k2 \in ValidKeys :
        /\ Did(k1, "Patch") /\ obj[ObjOf(k1)].ann \in Created(k1)
        /\ obj[ObjOf(k1)].ver = 1
        /\ Did(k2, "UpdateResult") /\ obj0[ObjOf(k2)].ann # NoAnn
        /\ obj[ObjOf(k2)] = obj0[ObjOf(k2)]

\* C20 (as stated): no Result is ever removed from the store and the number
\* of Executions of a Result never decreases from one state to the next.
C20_AccretionOnly ==
    [][/\ DOMAIN store \subseteq DOMAIN store'
       /\ \A id \in DOMAIN store : Len(store'[id]) >= Len(store[id])]_vars

\* C20 (amended): no Result is ever removed; a step other than a successful
\* UpdateResult leaves every Result as it was; a successful UpdateResult
\* changes only its own Result and stores a list at least as long as the
\* list its pass fetched, so the number of Executions decreases only when
\* another pass wrote the Result between the fetch and the write.
C20_AccretionSinceFetch ==
    [][/\ DOMAIN store \subseteq DOMAIN store'
       /\ \A id \in DOMAIN store :
             store'[id] # store[id] =>
                \E k \in ValidKeys :
                    /\ UpdateStep(k)
                    /\ tr[k].ann = id
                    /\ Len(store'[id]) >= Len(Fetched(k))
                    /\ Len(store'[id]) <= Len(Fetched(k)) + 1
                    /\ store[id] = Fetched(k) => Len(store'[id]) >= Len(store[id])]_vars

C20_Witness ==
    \E k1, k2 \in ValidKeys :
        /\ BothUpdated(k1, k2)
        /\ Fetched(k1) = Fetched(k2)
        /\ store[Entry(k2, "UpdateResult").id] = Sent(k2)
        /\ Len(Sent(k2)) < Len(Sent(k1))
        /\ Len(Sent(k2)) >= Len(Fetched(k2))

SlashFree(str) == \A i \in 1..Len(str) : str[i] # "/"

\* name is parent/results/result/records/record for segments of lengths a, b
\* and the rest, all three non-empty and without "/"
Decomposes(name, a, b) ==
    LET parent == SubSeq(name, 1, a)
        res == SubSeq(name, a + 10, a + 9 + b)
        rec == SubSeq(name, a + b + 19, Len(name))
    IN /\ a + b + 19 <= Len(name)
       /\ SlashFree(parent) /\ SlashFree(res) /\ SlashFree(rec)
       /\ name = FullName(parent, res, rec)
WellFormed(name) == \E a, b \in 1..Len(name) : Decomposes(name, a, b)

\* C14: ParseName succeeds exactly on the names parent/results/result/
\* records/record with three non-empty segments without "/" (five parts);
\* it returns the three segments as they are; every other name is an error;
\* each case of TestParseName gives what the test wants.
C14_NameGrammar ==
    stage = "ParseName" =>
        /\ parsed.ok <=> WellFormed(raw)
        /\ parsed.ok <=> /\ Len(Split(raw)) = 5
                         /\ Split(raw)[2] = StrResults /\ Split(raw)[4] = StrRecords
                         /\ \A i \in {1, 3, 5} : Split(raw)[i] # <<>>
        /\ parsed.ok => /\ raw = FullName(parsed.parent, parsed.result, parsed.name)
                        /\ parsed.parent = Split(raw)[1]
                        /\ parsed.result = Split(raw)[3]
                        /\ parsed.name = Split(raw)[5]
        /\ ~parsed.ok => parsed = ParseError
        /\ \A tc \in TestParseNameCases : raw = tc.in => parsed = tc.want

C14_Witness ==
    /\ stage = "ParseName"
    /\ raw = Join(<<StrResults, StrResults, StrRecords, StrRecords, StrRecords>>)
    /\ parsed = Parsed(StrResults, StrRecords, StrRecords)

\* C15: for non-empty segments without "/", ParseName of
\* parent + "/results/" + result + "/records/" + record succeeds and returns
\* exactly (parent, result, record).
C15_NameRoundTrip ==
    stage = "ParseName" =>
        \A parent, res, rec \in Segments \ {<<>>} :
            raw = FullName(parent, res, rec) => parsed = Parsed(parent, res, rec)

C15_Witness ==
    /\ stage = "ParseName"
    /\ raw = FullName(StrSpaceA, StrRecords, StrResults)
    /\ parsed = Parsed(StrSpaceA, StrRecords, StrResults)

\* the wire record went through ToStorage and then ToAPI
RoundTrip == args # NoArgs /\ stage \in {"ToAPI", "ToAPIError"}

C17_FieldProvenance ==
    /\ args # NoArgs /\ stage # "wire" =>
        /\ stored.Parent = args.parent
        /\ stored.ResultName = args.resultName
        /\ stored.ResultID = args.resultID
        /\ stored.Name = args.name
        /\ stored.ID = wire.Id
        /\ stored.Data.set <=> wire.Data.set
        /\ wire.Data.set => stored.Data.bytes = Marshal(wire.Data)
        /\ DOMAIN stored = {"Parent", "ResultID", "ResultName", "Name", "ID", "Data"}
        /\ \A w \in WireInputs :
            w.Id = wire.Id /\ w.Data = wire.Data =>
                ToStorage(args.parent, args.resultName, args.resultID, args.name, w) = stored
        /\ \A tc \in TestToStorageCases : args = TestArgs /\ wire = tc.in => stored = tc.want
    /\ stage = "ToAPI" =>
        /\ api.Name = stored.Parent \o <<"/">> \o StrResults \o <<"/">> \o stored.ResultName
                        \o <<"/">> \o StrRecords \o <<"/">> \o stored.Name
        /\ api.Id = stored.ID
        /\ api.Etag = <<>>
        /\ \A tc \in TestToAPICases : stored = tc.in => api = tc.want

C17_Witness ==
    /\ stage = "ToAPI"
    /\ args = TestArgs
    /\ wire = WireRecord(Join(<<StrFoo, StrResults, StrBar>>), StrA, TestData, StrTacocat)
    /\ stored = DbRecord(StrFoo, Str1, StrBar, StrBaz, StrA, Bytes(Marshal(TestData)))
    /\ api = WireRecord(Join(<<StrFoo, StrResults, StrBar, StrRecords, StrBaz>>),
                        StrA, TestData, <<>>)

TypeOK ==
    /\ alive \in BOOLEAN
    /\ \A k \in Keys : pc[k] \in {"idle", "Get", "GetResult", "UpdateResult", "CreateResult", "Patch"}
    /\ \A k \in Keys : outcome[k] \in {"none", "running", "nil", "err", "fatal", "cut"}
====
